---- MODULE Spec2Model ----
(***************************************************************************)
(* Model of src/app.py: the Flask handlers player_index,                   *)
(* player_update_view, player_update_save and account_delete over a        *)
(* psycopg connection pool, with the tables they read and write.           *)
(*                                                                         *)
(* Strings are sequences of one-character strings, so that strip() and     *)
(* int() are computed and not assumed.  An exception is a response record  *)
(* of kind "error" that carries the exception type.                        *)
(***************************************************************************)
EXTENDS Integers, Sequences, FiniteSets, TLC

(* ----------------------------- bounds ---------------------------------- *)

\* Worker threads; each handles one request at a time.
NumWorkers == 2
\* The clock runs from 0 to MaxClock ticks.
MaxClock == 2
\* Clock ticks in one second (sub-second instants that strftime truncates).
TicksPerSecond == 2

(* ------------------------ program constants ---------------------------- *)

\* ConnectionPool(max_size=10)
max_size == 10

Workers == 1 .. NumWorkers

(* ------------------------------ strings -------------------------------- *)

Whitespace == {" ", "\t"}
Digits == {"0", "1", "2", "3", "4", "5", "6", "7", "8", "9"}

DigitValue(c) ==
    CASE c = "0" -> 0 [] c = "1" -> 1 [] c = "2" -> 2 [] c = "3" -> 3
      [] c = "4" -> 4 [] c = "5" -> 5 [] c = "6" -> 6 [] c = "7" -> 7
      [] c = "8" -> 8 [] c = "9" -> 9

\* str.strip(): drops leading and trailing whitespace.
RECURSIVE LStrip(_)
LStrip(s) ==
    IF s # <<>> /\ Head(s) \in Whitespace THEN LStrip(Tail(s)) ELSE s

RECURSIVE RStrip(_)
RStrip(s) ==
    IF s # <<>> /\ s[Len(s)] \in Whitespace
    THEN RStrip(SubSeq(s, 1, Len(s) - 1))
    ELSE s

strip(s) == RStrip(LStrip(s))

\* The digits part of an integer literal: digits, with single underscores
\* allowed between two digits.
IsDigitRun(s) ==
    /\ s # <<>>
    /\ s[1] \in Digits
    /\ s[Len(s)] \in Digits
    /\ \A i \in 1 .. Len(s) :
          \/ s[i] \in Digits
          \/ s[i] = "_" /\ s[i - 1] \in Digits /\ s[i + 1] \in Digits

Unsigned(s) ==
    IF s # <<>> /\ s[1] \in {"+", "-"} THEN Tail(s) ELSE s

\* int(value) accepts surrounding whitespace, one sign and a digit run.
IsIntegerLiteral(s) == IsDigitRun(Unsigned(strip(s)))

RECURSIVE DigitRunValue(_, _)
DigitRunValue(s, acc) ==
    IF s = <<>> THEN acc
    ELSE IF Head(s) = "_" THEN DigitRunValue(Tail(s), acc)
    ELSE DigitRunValue(Tail(s), 10 * acc + DigitValue(Head(s)))

\* int(value) for a value that IsIntegerLiteral.
IntegerValue(s) ==
    LET t == strip(s)
        n == DigitRunValue(Unsigned(t), 0)
    IN  IF t[1] = "-" THEN 0 - n ELSE n

(* ------------------------ responses and errors -------------------------- *)

NoResponse == [kind |-> "none", exc |-> "", field |-> "", rule |-> ""]

Raise(exc, field, rule) ==
    [kind |-> "error", exc |-> exc, field |-> field, rule |-> rule]

\* A value returned without an exception.
Return(v) == [raised |-> FALSE, value |-> v, error |-> NoResponse]
\* An exception leaving a function.
Raised(e) == [raised |-> TRUE, value |-> 0, error |-> e]

(* ------------------------ validation helpers ---------------------------- *)

\* Variant: a value that does not parse becomes 0.
validate_integer_or_zero(value, field_name) ==
    IF IsIntegerLiteral(value) THEN Return(IntegerValue(value)) ELSE Return(0)

\* def validate_integer(value, field_name)
validate_integer(value, field_name) ==
    IF IsIntegerLiteral(value)
    THEN Return(IntegerValue(value))
    ELSE Raised(Raise("ValueError", field_name, "must be an integer"))

\* def validate_not_null(value, field_name); a value is tagged with its
\* Python type, "int" or "str" (None never reaches it: request.form[...]
\* raises for a missing key).
validate_not_null(value, field_name) ==
    IF value.t = "str" /\ strip(value.v) = <<>>
    THEN Raised(Raise("ValueError", field_name, "is required"))
    ELSE Return(0)

(* ----------------------- player_update_save: form ----------------------- *)

\* The form keys in the order lines 148-185 read them.
FormFields ==
    << "overall_rating", "potential", "preferred_foot", "attacking_work_rate",
       "defensive_work_rate", "crossing", "finishing", "heading_accuracy",
       "short_passing", "volleys", "dribbling", "curve", "free_kick_accuracy",
       "long_passing", "ball_control", "acceleration", "sprint_speed",
       "agility", "reactions", "balance", "shot_power", "jumping", "stamina",
       "strength", "long_shots", "aggression", "interceptions", "positioning",
       "vision", "penalties", "marking", "standing_tackle", "sliding_tackle",
       "gk_diving", "gk_handling", "gk_kicking", "gk_positioning",
       "gk_reflexes" >>

FieldNames == {FormFields[i] : i \in 1 .. Len(FormFields)}

\* The fields read without validate_integer (lines 150-152).
TextFields == {"preferred_foot", "attacking_work_rate", "defensive_work_rate"}

\* The fields passed through validate_integer.
IntegerFields == FieldNames \ TextFields

\* The options of line 236.
PreferredFootOptions ==
    { <<"l", "e", "f", "t">>, <<"r", "i", "g", "h", "t">>, <<"n", "o", "n", "e">> }

Min(S) == CHOOSE x \in S : \A y \in S : x <= y

\* request.form[key]: a missing key raises BadRequestKeyError (a KeyError).
FormGet(form, key) ==
    IF key \in DOMAIN form
    THEN Return(form[key])
    ELSE Raised(Raise("BadRequestKeyError", key, "missing key"))

\* One line of 148-185: read the key, and parse it if it is an integer field.
\* The value is tagged with its Python type.
ReadField(form, key) ==
    LET got == FormGet(form, key)
    IN  IF got.raised THEN got
        ELSE IF key \in TextFields THEN Return([t |-> "str", v |-> got.value])
        ELSE LET parsed == validate_integer(got.value, key)
             IN  IF parsed.raised THEN parsed
                 ELSE Return([t |-> "int", v |-> parsed.value])

\* Lines 148-185 in order: the first exception leaves the handler.
ParseForm(form) ==
    LET bad == {i \in 1 .. Len(FormFields) : ReadField(form, FormFields[i]).raised}
    IN  IF bad # {}
        THEN ReadField(form, FormFields[Min(bad)])
        ELSE Return([f \in FieldNames |-> ReadField(form, f).value])

\* Lines 187-225 in order: validate_not_null of the date, then of every field.
CheckRequired(current_datetime, values) ==
    LET date == validate_not_null([t |-> "str", v |-> current_datetime], "date")
        bad == {i \in 1 .. Len(FormFields) :
                   validate_not_null(values[FormFields[i]], FormFields[i]).raised}
    IN  IF date.raised THEN date
        ELSE IF bad # {}
        THEN validate_not_null(values[FormFields[Min(bad)]], FormFields[Min(bad)])
        ELSE Return(0)

\* Variant: lines 227-234 without the check of line 236.
CheckTypesWithoutFoot(current_datetime, values) ==
    IF current_datetime = <<>>
    THEN Raised(Raise("ValueError", "date", "is required"))
    ELSE IF values["attacking_work_rate"].t # "str"
    THEN Raised(Raise("ValueError", "attacking_work_rate", "must be a string"))
    ELSE IF values["defensive_work_rate"].t # "str"
    THEN Raised(Raise("ValueError", "defensive_work_rate", "must be a string"))
    ELSE Return(0)

\* Lines 227-237: the checks after validate_not_null.
CheckTypes(current_datetime, values) ==
    IF current_datetime = <<>>
    THEN Raised(Raise("ValueError", "date", "is required"))
    ELSE IF values["attacking_work_rate"].t # "str"
    THEN Raised(Raise("ValueError", "attacking_work_rate", "must be a string"))
    ELSE IF values["defensive_work_rate"].t # "str"
    THEN Raised(Raise("ValueError", "defensive_work_rate", "must be a string"))
    ELSE IF values["preferred_foot"].v \notin PreferredFootOptions
    THEN Raised(Raise("ValueError", "preferred_foot", "must be left, right or none"))
    ELSE Return(0)

\* Lines 148-237: the values to insert, or the first exception.
ValidateForm(form, current_datetime) ==
    LET parsed == ParseForm(form)
    IN  IF parsed.raised THEN parsed
        ELSE LET required == CheckRequired(current_datetime, parsed.value)
             IN  IF required.raised THEN required
                 ELSE LET typed == CheckTypes(current_datetime, parsed.value)
                      IN  IF typed.raised THEN typed
                          ELSE Return([f \in FieldNames |-> parsed.value[f].v])

(* ------------------------------ the clock ------------------------------- *)

DigitChar(n) ==
    CASE n = 0 -> "0" [] n = 1 -> "1" [] n = 2 -> "2" [] n = 3 -> "3"
      [] n = 4 -> "4" [] n = 5 -> "5" [] n = 6 -> "6" [] n = 7 -> "7"
      [] n = 8 -> "8" [] n = 9 -> "9"

\* datetime.now().strftime("%Y-%m-%d %H:%M:%S"), of which the model keeps
\* the "%M:%S" part: the instant is cut to whole seconds.
strftime(ticks) ==
    LET seconds == ticks \div TicksPerSecond
        mm == (seconds \div 60) % 60
        ss == seconds % 60
    IN  << DigitChar(mm \div 10), DigitChar(mm % 10), ":",
           DigitChar(ss \div 10), DigitChar(ss % 10) >>

\* Order of two timestamps of this format: position by position.
RECURSIVE DateLess(_, _)
DateLess(a, b) ==
    IF a = <<>> \/ b = <<>> THEN a = <<>> /\ b # <<>>
    ELSE IF Head(a) = Head(b) THEN DateLess(Tail(a), Tail(b))
    ELSE IF Head(a) = ":" \/ Head(b) = ":" THEN Head(a) = ":"
    ELSE DigitValue(Head(a)) < DigitValue(Head(b))

(* ------------------------------ the tables ------------------------------ *)

\* Rows of Player: created outside the application.
Player ==
    { [player_api_id |-> 1, player_name |-> "Ana"],
      [player_api_id |-> 2, player_name |-> "Rui"] }

\* The storage layer's reading of a text parameter compared with, or stored
\* in, the integer column player_api_id.
DbInteger(text) ==
    IF IsDigitRun(Unsigned(strip(text))) /\ \A i \in 1 .. Len(text) : text[i] # "_"
    THEN Return(IntegerValue(text))
    ELSE Raised(Raise("InvalidTextRepresentation", "player_api_id", "integer"))

\* Snapshots are keyed by (player_api_id, date).
SameKey(a, b) == a.player_api_id = b.player_api_id /\ a.date = b.date

\* The key of Player_Attributes: no second row of the same key.
KeyTaken(table, row) == \E old \in table : SameKey(old, row)

\* The foreign key of Player_Attributes: the player is a row of Player.
PlayerExists(id) == \E p \in Player : p.player_api_id = id

\* Variant: INSERT ... ON CONFLICT (player_api_id, date) DO UPDATE, which
\* overwrites the snapshot of the same key.
UpsertPlayerAttributes(table, player_api_id, date, attrs) ==
    LET id == DbInteger(player_api_id)
        row == [player_api_id |-> id.value, date |-> date, attrs |-> attrs]
    IN  IF id.raised THEN id
        ELSE IF ~PlayerExists(id.value)
        THEN Raised(Raise("ForeignKeyViolation", "player_api_id", "Player"))
        ELSE Return({old \in table : ~SameKey(old, row)} \cup {row})

\* INSERT INTO Player_Attributes (...) VALUES (...): lines 242-371, against
\* the key of the table and its foreign key to Player.
InsertPlayerAttributes(table, player_api_id, date, attrs) ==
    LET id == DbInteger(player_api_id)
        row == [player_api_id |-> id.value, date |-> date, attrs |-> attrs]
    IN  IF id.raised THEN id
        ELSE IF ~PlayerExists(id.value)
        THEN Raised(Raise("ForeignKeyViolation", "player_api_id", "Player"))
        ELSE IF KeyTaken(table, row)
        THEN Raised(Raise("UniqueViolation", "date", "player_api_id, date"))
        ELSE Return(table \cup {row})

\* pa JOIN Player p ON pa.player_api_id = p.player_api_id
\* WHERE pa.player_api_id = %(player_api_id)s
JoinedRows(table, id) ==
    { [pa |-> pa, player_name |-> p.player_name] :
        <<pa, p>> \in {x \in table \X Player :
                          /\ x[1].player_api_id = x[2].player_api_id
                          /\ x[1].player_api_id = id} }

\* Variant: ORDER BY pa.date (ascending).
RECURSIVE OrderByDateAsc(_)
OrderByDateAsc(rows) ==
    IF rows = {} THEN <<>>
    ELSE LET first == CHOOSE r \in rows :
                          \A o \in rows : ~DateLess(o.pa.date, r.pa.date)
         IN  <<first>> \o OrderByDateAsc(rows \ {first})

\* ORDER BY pa.date DESC
RECURSIVE OrderByDateDesc(_)
OrderByDateDesc(rows) ==
    IF rows = {} THEN <<>>
    ELSE LET first == CHOOSE r \in rows :
                          \A o \in rows : ~DateLess(r.pa.date, o.pa.date)
         IN  <<first>> \o OrderByDateDesc(rows \ {first})

\* LIMIT 1
Limit1(rows) == IF rows = <<>> THEN <<>> ELSE <<Head(rows)>>

\* The SELECT of lines 106-116; fetchone() is the row, or None (here <<>>).
SelectLatest(table, player_api_id) ==
    LET id == DbInteger(player_api_id)
    IN  IF id.raised THEN id
        ELSE Return(Limit1(OrderByDateDesc(JoinedRows(table, id.value))))

\* Variant: the DELETE without its WHERE clause.
DepositorRowsAll(table, account_number) == table

\* DELETE FROM depositor WHERE account_number = %(account_number)s
DepositorRowsOf(table, account_number) ==
    {d \in table : d.account_number = account_number}

\* DELETE FROM account WHERE account_number = %(account_number)s
AccountRowsOf(table, account_number) ==
    {a \in table : a = account_number}

\* The referential constraints on account: a row of another table, or a
\* depositor row the transaction still sees, references the account number.
StillReferenced(account_number, elsewhere, depositors) ==
    account_number \in elsewhere \/ depositors # {}

\* Variant: the statements outside a transaction, each committed as it
\* runs (the pool's connections are autocommit).
TransactionExitAutocommit(table, deleted, resp) == table \ deleted

\* Exit of `with conn.transaction()`: COMMIT, or ROLLBACK on an exception.
TransactionExit(table, deleted, resp) ==
    IF resp.kind = "error" THEN table ELSE table \ deleted

(* ------------------------------- the pool ------------------------------- *)

\* pool.connection().__enter__: one more connection is out of the pool.
getconn(n) == n + 1

\* Variant: the connection goes back only when the block ends normally.
putconnUnlessRaised(n, resp) == IF resp.kind = "error" THEN n ELSE n - 1

\* pool.connection().__exit__: the connection goes back, whether the block
\* ends normally or with an exception.
putconn(n, resp) == n - 1

(* ------------------------------- routing -------------------------------- *)

\* The endpoints the routes of app.py define.
Endpoints ==
    {"static", "player_index", "player_update_view", "player_update_save",
     "account_delete", "ping"}

\* redirect(url_for(endpoint)): url_for raises BuildError for an endpoint
\* that no route defines.
redirect(endpoint) ==
    IF endpoint \in Endpoints
    THEN [kind |-> "redirect", exc |-> "", field |-> endpoint, rule |-> ""]
    ELSE Raise("BuildError", endpoint, "url_for")

\* A statement that fails for a reason outside the request: the storage is
\* unreachable, the statement is cancelled.
StorageFailure == Raise("OperationalError", "", "storage")

\* render_template(template, ...)
render_template(template) ==
    [kind |-> "page", exc |-> "", field |-> template, rule |-> ""]

\* What each handler returns after its `with pool.connection()` block.
HandlerReturn(h) ==
    CASE h = "player_update_save" -> redirect("player_index")
      [] h = "player_update_view" -> render_template("players/update.html")
      [] h = "account_delete" -> redirect("account_index")

(* -------------------------------- inputs -------------------------------- *)

\* A form every field of which is valid.
ValidForm ==
    [f \in FieldNames |->
        IF f = "preferred_foot" THEN <<"l", "e", "f", "t">>
        ELSE IF f \in TextFields THEN <<"l", "o", "w">>
        ELSE <<"5", "0">>]

\* A second valid form: other values, written with blanks and a sign.
OtherValidForm ==
    [ValidForm EXCEPT !["overall_rating"] = <<" ", "7", "1", " ">>,
                      !["preferred_foot"] = <<"n", "o", "n", "e">>,
                      !["gk_reflexes"] = <<"+", "9">>]

\* Marks a key the form does not hold (no value of a form: its one element
\* is not a character).
Missing == <<"missing">>

\* The fields whose submitted value varies, and the values each may take.
VariedFields ==
    {"overall_rating", "potential", "preferred_foot", "attacking_work_rate",
     "defensive_work_rate", "gk_reflexes"}

Submitted(f) ==
    CASE f = "overall_rating" ->
            {<<"5", "0">>, <<" ", "7", "1", " ">>, <<"4", ".", "5">>, Missing}
      [] f = "potential" -> {<<"5", "0">>, <<>>, Missing}
      [] f = "preferred_foot" ->
            {<<"l", "e", "f", "t">>, <<"L", "e", "f", "t">>, <<" ">>, Missing}
      [] f = "attacking_work_rate" -> {<<"l", "o", "w">>, <<>>, Missing}
      [] f = "defensive_work_rate" -> {<<"l", "o", "w">>, <<"\t", " ">>, Missing}
      [] f = "gk_reflexes" -> {<<"5", "0">>, <<"1", "_", "0">>, <<"x">>, Missing}

\* The form that holds choice[f] for the varied fields and ValidForm's value
\* for the others.
FormOf(choice) ==
    [f \in {g \in FieldNames : g \notin VariedFields \/ choice[g] # Missing} |->
        IF f \in VariedFields THEN choice[f] ELSE ValidForm[f]]

Forms ==
    {FormOf([overall_rating |-> a, potential |-> b, preferred_foot |-> c,
             attacking_work_rate |-> d, defensive_work_rate |-> e,
             gk_reflexes |-> g]) :
        a \in Submitted("overall_rating"), b \in Submitted("potential"),
        c \in Submitted("preferred_foot"), d \in Submitted("attacking_work_rate"),
        e \in Submitted("defensive_work_rate"), g \in Submitted("gk_reflexes")}

\* The player ids of the requests: a player, an id no player has.
PlayerIdArgs == {<<"1">>, <<"9">>}

\* The forms posted to /players/update: the ids of two players and of none,
\* and a form without the key.
ViewForms ==
    {[f \in {"player_api_id"} |-> id] : id \in PlayerIdArgs \cup {<<"2">>}}
        \cup {[f \in {} |-> <<>>]}

AccountNumbers == {<<"A", "-", "1", "0", "1">>, <<"A", "-", "2", "1", "5">>}
Customers == {"Cook"}

DepositorRows ==
    [customer_name : Customers, account_number : AccountNumbers]

(* -------------------------------- state --------------------------------- *)

VARIABLES
    clock,              \* the server's clock, in ticks
    player_attributes,  \* table Player_Attributes
    account,            \* table account: the account numbers of its rows
    depositor,          \* table depositor
    referenced,         \* account numbers that rows of other tables reference
    borrowed,           \* connections out of the pool
    idx_holding,        \* player_index requests holding a connection
    pc,                 \* where each worker's handler is
    handler,            \* the handler each worker runs
    arg,                \* its URL or form argument
    form,               \* request.form
    current_datetime,   \* line 127
    values,             \* the validated values of lines 148-185
    has_conn,           \* whether the worker is inside `with pool.connection()`
    tx,                 \* the worker's transaction: open or not, the rows deleted
    player,             \* the fetchone() of player_update_view
    response            \* what the request answers, or the exception raised

vars ==
    << clock, player_attributes, account, depositor, referenced, borrowed,
       idx_holding, pc, handler, arg, form, current_datetime,
       values, has_conn, tx, player, response >>

tables == <<player_attributes, account, depositor, referenced>>

NoForm == [f \in {} |-> <<>>]
NoValues == [f \in {} |-> 0]
NoTx == [open |-> FALSE, depositor |-> {}, account |-> {}]

\* A snapshot that exists before any request: taken in the clock's first
\* second.
InitialSnapshot(id) ==
    [player_api_id |-> id, date |-> strftime(0),
     attrs |-> ValidateForm(ValidForm, strftime(0)).value]

InitWorkers ==
    /\ pc = [w \in Workers |-> "idle"]
    /\ handler = [w \in Workers |-> ""]
    /\ arg = [w \in Workers |-> <<>>]
    /\ form = [w \in Workers |-> NoForm]
    /\ current_datetime = [w \in Workers |-> <<>>]
    /\ values = [w \in Workers |-> NoValues]
    /\ has_conn = [w \in Workers |-> FALSE]
    /\ tx = [w \in Workers |-> NoTx]
    /\ player = [w \in Workers |-> <<>>]
    /\ response = [w \in Workers |-> NoResponse]

InitPool ==
    /\ borrowed = 0
    /\ idx_holding = 0

\* Every state of the tables that respects the keys: a depositor row
\* references an account row, a reference from elsewhere too.
InitAccountTables ==
    /\ account \in SUBSET AccountNumbers
    /\ depositor \in SUBSET {d \in DepositorRows : d.account_number \in account}
    /\ referenced \in SUBSET account

OneAccount == {<<"A", "-", "1", "0", "1">>}

\* One account with a depositor, which a row elsewhere references.
InitOneAccount ==
    /\ account = OneAccount
    /\ depositor = {d \in DepositorRows : d.account_number \in account}
    /\ referenced = account

\* The whole application, from one state of the tables.
Init ==
    /\ clock = 0
    /\ player_attributes = {}
    /\ InitOneAccount
    /\ InitPool
    /\ InitWorkers

\* The player handlers, from every state of Player_Attributes that holds
\* snapshots of the clock's first second.
InitPlayers ==
    /\ clock = 0
    /\ player_attributes \in SUBSET {InitialSnapshot(1), InitialSnapshot(2)}
    /\ account = {}
    /\ depositor = {}
    /\ referenced = {}
    /\ InitPool
    /\ InitWorkers

\* account_delete, from every state of account and depositor.
InitAccounts ==
    /\ clock = 0
    /\ player_attributes = {InitialSnapshot(1)}
    /\ InitAccountTables
    /\ InitPool
    /\ InitWorkers

(* ------------------------------- actions -------------------------------- *)

Tick ==
    /\ clock < MaxClock
    /\ clock' = clock + 1
    /\ UNCHANGED << tables, borrowed, idx_holding, pc, handler, arg, form,
                    current_datetime, values, has_conn, tx, player, response >>

\* player_update_save, lines 123-237: the time is read, the form validated.
SaveBegin(w, ids, forms) ==
    /\ pc[w] = "idle"
    /\ \E id \in ids, f \in forms :
          LET now == strftime(clock)
              v == ValidateForm(f, now)
          IN  /\ handler' = [handler EXCEPT ![w] = "player_update_save"]
              /\ arg' = [arg EXCEPT ![w] = id]
              /\ form' = [form EXCEPT ![w] = f]
              /\ current_datetime' = [current_datetime EXCEPT ![w] = now]
              /\ IF v.raised
                 THEN /\ response' = [response EXCEPT ![w] = v.error]
                      /\ pc' = [pc EXCEPT ![w] = "respond"]
                      /\ UNCHANGED values
                 ELSE /\ values' = [values EXCEPT ![w] = v.value]
                      /\ pc' = [pc EXCEPT ![w] = "acquire"]
                      /\ UNCHANGED response
    /\ UNCHANGED << clock, tables, borrowed, idx_holding, has_conn, tx, player >>

\* player_update_view, line 102.
ViewBegin(w, forms) ==
    /\ pc[w] = "idle"
    /\ \E f \in forms :
          LET id == FormGet(f, "player_api_id")
          IN  /\ handler' = [handler EXCEPT ![w] = "player_update_view"]
              /\ form' = [form EXCEPT ![w] = f]
              /\ IF id.raised
                 THEN /\ response' = [response EXCEPT ![w] = id.error]
                      /\ pc' = [pc EXCEPT ![w] = "respond"]
                      /\ UNCHANGED arg
                 ELSE /\ arg' = [arg EXCEPT ![w] = id.value]
                      /\ pc' = [pc EXCEPT ![w] = "acquire"]
                      /\ UNCHANGED response
    /\ UNCHANGED << clock, tables, borrowed, idx_holding, current_datetime,
                    values, has_conn, tx, player >>

\* account_delete, line 378.
DeleteBegin(w, numbers) ==
    /\ pc[w] = "idle"
    /\ \E n \in numbers :
          /\ handler' = [handler EXCEPT ![w] = "account_delete"]
          /\ arg' = [arg EXCEPT ![w] = n]
    /\ pc' = [pc EXCEPT ![w] = "acquire"]
    /\ UNCHANGED << clock, tables, borrowed, idx_holding, form, current_datetime,
                    values, has_conn, tx, player, response >>

\* `with pool.connection() as conn`: a connection is there.
Acquire(w) ==
    /\ pc[w] = "acquire"
    /\ borrowed < max_size
    /\ borrowed' = getconn(borrowed)
    /\ has_conn' = [has_conn EXCEPT ![w] = TRUE]
    /\ pc' = [pc EXCEPT ![w] = "execute"]
    /\ UNCHANGED << clock, tables, idx_holding, handler, arg, form,
                    current_datetime, values, tx, player, response >>

\* `with pool.connection() as conn`: none comes back within the timeout.
AcquireTimeout(w) ==
    /\ pc[w] = "acquire"
    /\ borrowed >= max_size
    /\ response' = [response EXCEPT ![w] = Raise("PoolTimeout", "", "timeout")]
    /\ pc' = [pc EXCEPT ![w] = "respond"]
    /\ UNCHANGED << clock, tables, borrowed, idx_holding, handler, arg, form,
                    current_datetime, values, has_conn, tx, player >>

\* Lines 242-371: the INSERT, which the storage accepts or refuses.
SaveInsert(w) ==
    /\ pc[w] = "execute"
    /\ handler[w] = "player_update_save"
    /\ \E up \in BOOLEAN :
          LET r == IF up
                   THEN InsertPlayerAttributes(player_attributes, arg[w],
                                               current_datetime[w], values[w])
                   ELSE Raised(StorageFailure)
          IN  IF r.raised
              THEN /\ response' = [response EXCEPT ![w] = r.error]
                   /\ UNCHANGED player_attributes
              ELSE /\ player_attributes' = r.value
                   /\ UNCHANGED response
    /\ pc' = [pc EXCEPT ![w] = "release"]
    /\ UNCHANGED << clock, account, depositor, referenced, borrowed, idx_holding,
                    handler, arg, form, current_datetime, values, has_conn, tx,
                    player >>

\* Lines 106-117: the SELECT and fetchone().
ViewSelect(w) ==
    /\ pc[w] = "execute"
    /\ handler[w] = "player_update_view"
    /\ \E up \in BOOLEAN :
          LET r == IF up THEN SelectLatest(player_attributes, arg[w])
                   ELSE Raised(StorageFailure)
          IN  IF r.raised
              THEN /\ response' = [response EXCEPT ![w] = r.error]
                   /\ UNCHANGED player
              ELSE /\ player' = [player EXCEPT ![w] = r.value]
                   /\ UNCHANGED response
    /\ pc' = [pc EXCEPT ![w] = "release"]
    /\ UNCHANGED << clock, tables, borrowed, idx_holding, handler, arg, form,
                    current_datetime, values, has_conn, tx >>

\* The rows other open transactions have deleted: locked until they end.
LockedDepositor(w) ==
    UNION {tx[o].depositor : o \in {x \in Workers \ {w} : tx[x].open}}
LockedAccount(w) ==
    UNION {tx[o].account : o \in {x \in Workers \ {w} : tx[x].open}}

\* Lines 383-391: BEGIN and the first DELETE, which waits for rows that
\* another transaction has locked.
DeleteDepositor(w) ==
    /\ pc[w] = "execute"
    /\ handler[w] = "account_delete"
    /\ LET rows == DepositorRowsOf(depositor, arg[w])
       IN  /\ rows \cap LockedDepositor(w) = {}
           /\ \E up \in BOOLEAN :
                 IF up
                 THEN /\ tx' = [tx EXCEPT ![w] =
                            [open |-> TRUE, depositor |-> rows, account |-> {}]]
                      /\ pc' = [pc EXCEPT ![w] = "execute2"]
                      /\ UNCHANGED response
                 ELSE /\ response' = [response EXCEPT ![w] = StorageFailure]
                      /\ tx' = [tx EXCEPT ![w].open = TRUE]
                      /\ pc' = [pc EXCEPT ![w] = "tx_exit"]
    /\ UNCHANGED << clock, tables, borrowed, idx_holding, handler, arg, form,
                    current_datetime, values, has_conn, player >>

\* Lines 392-398: the second DELETE, which the storage refuses while a row
\* still references the account.
DeleteAccount(w) ==
    /\ pc[w] = "execute2"
    /\ LET rows == AccountRowsOf(account, arg[w])
           refs == DepositorRowsOf(depositor \ tx[w].depositor, arg[w])
       IN  /\ rows \cap LockedAccount(w) = {}
           /\ \E up \in BOOLEAN :
                 IF ~up
                 THEN /\ response' = [response EXCEPT ![w] = StorageFailure]
                      /\ UNCHANGED tx
                 ELSE IF rows # {} /\ StillReferenced(arg[w], referenced, refs)
                 THEN /\ response' = [response EXCEPT ![w] =
                            Raise("ForeignKeyViolation", "account_number", "account")]
                      /\ UNCHANGED tx
                 ELSE /\ tx' = [tx EXCEPT ![w].account = rows]
                      /\ UNCHANGED response
    /\ pc' = [pc EXCEPT ![w] = "tx_exit"]
    /\ UNCHANGED << clock, tables, borrowed, idx_holding, handler, arg, form,
                    current_datetime, values, has_conn, player >>

\* Exit of `with conn.transaction()`, lines 383-399; tx keeps the rows the
\* statements deleted until the response leaves.
DeleteExit(w) ==
    /\ pc[w] = "tx_exit"
    /\ depositor' = TransactionExit(depositor, tx[w].depositor, response[w])
    /\ account' = TransactionExit(account, tx[w].account, response[w])
    /\ tx' = [tx EXCEPT ![w].open = FALSE]
    /\ pc' = [pc EXCEPT ![w] = "release"]
    /\ UNCHANGED << clock, player_attributes, referenced, borrowed, idx_holding,
                    handler, arg, form, current_datetime, values, has_conn,
                    player, response >>

\* Exit of `with pool.connection()`, then the handler's return statement
\* unless an exception is on its way out.
Release(w) ==
    /\ pc[w] = "release"
    /\ borrowed' = putconn(borrowed, response[w])
    /\ has_conn' = [has_conn EXCEPT ![w] = FALSE]
    /\ response' = [response EXCEPT ![w] =
          IF response[w].kind = "error" THEN response[w]
          ELSE HandlerReturn(handler[w])]
    /\ pc' = [pc EXCEPT ![w] = "respond"]
    /\ UNCHANGED << clock, tables, idx_holding, handler, arg, form,
                    current_datetime, values, tx, player >>

\* The response leaves; the worker is free for the next request.
Respond(w) ==
    /\ pc[w] = "respond"
    /\ pc' = [pc EXCEPT ![w] = "idle"]
    /\ handler' = [handler EXCEPT ![w] = ""]
    /\ arg' = [arg EXCEPT ![w] = <<>>]
    /\ form' = [form EXCEPT ![w] = NoForm]
    /\ current_datetime' = [current_datetime EXCEPT ![w] = <<>>]
    /\ values' = [values EXCEPT ![w] = NoValues]
    /\ player' = [player EXCEPT ![w] = <<>>]
    /\ response' = [response EXCEPT ![w] = NoResponse]
    /\ tx' = [tx EXCEPT ![w] = NoTx]
    /\ UNCHANGED << clock, tables, borrowed, idx_holding, has_conn >>

\* player_index, lines 77-95: a request gets a connection ...
IndexAcquire ==
    /\ borrowed < max_size
    /\ borrowed' = getconn(borrowed)
    /\ idx_holding' = idx_holding + 1
    /\ UNCHANGED << clock, tables, pc, handler, arg, form, current_datetime,
                    values, has_conn, tx, player, response >>

\* ... or none within the timeout, and fails: nothing of the state changes ...
IndexTimeout ==
    /\ borrowed >= max_size
    /\ UNCHANGED vars

\* ... reads the view, gives the connection back and renders the page (or
\* fails: the connection goes back all the same).
IndexRelease ==
    /\ idx_holding > 0
    /\ \E up \in BOOLEAN :
          borrowed' = putconn(borrowed, IF up THEN NoResponse ELSE StorageFailure)
    /\ idx_holding' = idx_holding - 1
    /\ UNCHANGED << clock, tables, pc, handler, arg, form, current_datetime,
                    values, has_conn, tx, player, response >>

(* ---------------------------- specifications ---------------------------- *)

OnePlayerView == {[f \in {"player_api_id"} |-> <<"1">>]}

\* The whole application: every handler, the pool under the load of
\* player_index; the clock stands still, so a second snapshot of the player
\* is refused, and the account is referenced, so its delete is rolled back.
Next ==
    \/ \E w \in Workers : SaveBegin(w, {<<"1">>}, {ValidForm})
    \/ \E w \in Workers : ViewBegin(w, OnePlayerView)
    \/ \E w \in Workers : DeleteBegin(w, OneAccount)
    \/ \E w \in Workers : Acquire(w)
    \/ \E w \in Workers : AcquireTimeout(w)
    \/ \E w \in Workers : SaveInsert(w)
    \/ \E w \in Workers : ViewSelect(w)
    \/ \E w \in Workers : DeleteDepositor(w)
    \/ \E w \in Workers : DeleteAccount(w)
    \/ \E w \in Workers : DeleteExit(w)
    \/ \E w \in Workers : Release(w)
    \/ \E w \in Workers : Respond(w)
    \/ IndexAcquire
    \/ IndexTimeout
    \/ IndexRelease

Spec == Init /\ [][Next]_vars

\* The player handlers run concurrently while the clock advances.
NextPlayers ==
    \/ \E w \in Workers : SaveBegin(w, PlayerIdArgs, {ValidForm, OtherValidForm})
    \/ \E w \in Workers : ViewBegin(w, ViewForms)
    \/ \E w \in Workers : Acquire(w)
    \/ \E w \in Workers : SaveInsert(w)
    \/ \E w \in Workers : ViewSelect(w)
    \/ \E w \in Workers : Release(w)
    \/ \E w \in Workers : Respond(w)
    \/ Tick

SpecPlayers == InitPlayers /\ [][NextPlayers]_vars

\* The player handlers, one request after the other.
NextSerial ==
    \/ SaveBegin(1, PlayerIdArgs, {ValidForm, OtherValidForm})
    \/ ViewBegin(1, ViewForms)
    \/ Acquire(1)
    \/ SaveInsert(1)
    \/ ViewSelect(1)
    \/ Release(1)
    \/ Respond(1)
    \/ Tick

SpecSerial == InitPlayers /\ [][NextSerial]_vars

\* account_delete runs concurrently.
NextAccounts ==
    \/ \E w \in Workers : DeleteBegin(w, AccountNumbers)
    \/ \E w \in Workers : Acquire(w)
    \/ \E w \in Workers : DeleteDepositor(w)
    \/ \E w \in Workers : DeleteAccount(w)
    \/ \E w \in Workers : DeleteExit(w)
    \/ \E w \in Workers : Release(w)
    \/ \E w \in Workers : Respond(w)

SpecAccounts == InitAccounts /\ [][NextAccounts]_vars

\* Validation, from an empty Player_Attributes.
InitForms ==
    /\ clock = 0
    /\ player_attributes = {}
    /\ account = {}
    /\ depositor = {}
    /\ referenced = {}
    /\ InitPool
    /\ InitWorkers

\* One worker takes every form.
NextForms ==
    \/ SaveBegin(1, {<<"1">>}, Forms)
    \/ Acquire(1)
    \/ SaveInsert(1)
    \/ Release(1)
    \/ Respond(1)

SpecForms == InitForms /\ [][NextForms]_vars

(* ------------------------ claims: account_delete ------------------------ *)

IsDelete(w) == handler[w] = "account_delete"

\* The depositor rows of account number n, read off the table.
DepositorsOf(table, n) == {d \in table : d.account_number = n}

\* C1: account_delete is all-or-nothing.  Whenever a step changes the
\* committed depositor rows of an account number, or its account row, that
\* step leaves neither the account row nor any depositor row of the number:
\* no committed state holds one delete without the other, and a transaction
\* whose second delete fails leaves the first delete's rows in place.
C1_AllOrNothing ==
    [][\A n \in AccountNumbers :
          (\/ DepositorsOf(depositor', n) # DepositorsOf(depositor, n)
           \/ (n \in account') # (n \in account))
          => /\ n \notin account'
             /\ DepositorsOf(depositor', n) = {}]_vars

\* C1 witness: the second delete failed after the first had deleted rows, the
\* transaction is over, and the depositor rows and the account row are there.
C1_RolledBack ==
    \E w \in Workers :
        /\ IsDelete(w)
        /\ pc[w] = "release"
        /\ response[w].exc = "ForeignKeyViolation"
        /\ tx[w].depositor # {}
        /\ tx[w].depositor \subseteq depositor
        /\ arg[w] \in account

\* C5 (as claimed): an account_delete whose two statements ran without
\* failing and deleted no row answers with success (the redirect).
C5_NoOpReportsSuccess ==
    \A w \in Workers :
        (/\ IsDelete(w)
         /\ pc[w] = "respond"
         /\ tx[w].depositor = {}
         /\ tx[w].account = {}
         /\ response[w].exc \notin {"OperationalError", "ForeignKeyViolation"})
        => response[w].kind = "redirect"

\* C10: a step of account_delete for account number n leaves every depositor
\* row and every account row of another number, and Player_Attributes, as
\* they were, whether its transaction commits or rolls back.
C10_DeleteFrame ==
    [][\A w \in Workers :
          (pc'[w] # pc[w] /\ (IsDelete(w) \/ handler'[w] = "account_delete"))
          => LET n == IF IsDelete(w) THEN arg[w] ELSE arg'[w]
             IN  /\ {d \in depositor' : d.account_number # n}
                       = {d \in depositor : d.account_number # n}
                 /\ account' \ {n} = account \ {n}
                 /\ player_attributes' = player_attributes
                 /\ referenced' = referenced]_vars

\* C10 witness: a delete has committed the removal of an account row and of
\* its depositor rows while another account and its depositor rows exist.
C10_DeletedBesideOthers ==
    \E w \in Workers :
        /\ IsDelete(w)
        /\ pc[w] = "release"
        /\ response[w].kind = "none"
        /\ tx[w].depositor # {}
        /\ tx[w].account # {}
        /\ \E d \in depositor : d.account_number # arg[w] /\ d.account_number \in account
        /\ player_attributes # {}

(* --------------------------- claims: the pool --------------------------- *)

\* The workers inside `with pool.connection()`.
Holders == {w \in Workers : has_conn[w]}

\* C7: every connection out of the pool is held by one request inside its
\* `with pool.connection()` block and by no other, at most max_size are out,
\* and none is out once no request is inside such a block, also after
\* statements and transactions have failed.
C7_PoolBounded ==
    /\ borrowed <= max_size
    /\ borrowed = idx_holding + Cardinality(Holders)
    /\ \A w \in Workers :
          has_conn[w] <=> pc[w] \in {"execute", "execute2", "tx_exit", "release"}
    /\ (idx_holding = 0 /\ \A w \in Workers : pc[w] \in {"idle", "respond"})
          => borrowed = 0

\* C7 witness: one request found the pool exhausted, another one's
\* transaction failed, both are over and every connection is back.
C7_AllReturnedAfterFailures ==
    \E w, o \in Workers :
        /\ pc[w] = "respond"
        /\ response[w].exc = "PoolTimeout"
        /\ pc[o] = "respond"
        /\ IsDelete(o)
        /\ response[o].exc = "ForeignKeyViolation"
        /\ idx_holding = 0
        /\ borrowed = 0

(* ---------------------- claims: the player handlers --------------------- *)

IsSave(w) == handler[w] = "player_update_save"
IsView(w) == handler[w] = "player_update_view"

\* The number a submitted id or integer field stands for, case by case.
NumberOf(text) ==
    CASE text = <<"1">> -> 1
      [] text = <<"2">> -> 2
      [] text = <<"9">> -> 9
      [] text = <<"5", "0">> -> 50
      [] text = <<" ", "7", "1", " ">> -> 71
      [] text = <<"+", "9">> -> 9
      [] text = <<"1", "_", "0">> -> 10

\* The whole seconds a timestamp of the format "MM:SS" stands for.
SecondsOf(date) ==
    60 * (10 * DigitValue(date[1]) + DigitValue(date[2]))
       + 10 * DigitValue(date[4]) + DigitValue(date[5])

\* The submitted values that int() reads as an integer.
WrittenIntegers ==
    {<<"5", "0">>, <<" ", "7", "1", " ">>, <<"+", "9">>, <<"1", "_", "0">>}

\* The submitted values that are empty once blanks are trimmed.
BlankTexts == {<<>>, <<" ">>, <<"\t", " ">>}

\* The keys a form lacks.
MissingKeys(f) == FieldNames \ DOMAIN f

\* The integer fields of a form that hold no integer.
NonIntegerFields(f) ==
    {k \in IntegerFields \cap DOMAIN f : f[k] \notin WrittenIntegers}

\* The text fields of a form that are blank.
BlankFields(f) == {k \in TextFields \cap DOMAIN f : f[k] \in BlankTexts}

\* A form every field of which, but perhaps preferred_foot, is there and
\* valid.
OthersValid(f) ==
    /\ MissingKeys(f) \subseteq {"preferred_foot"}
    /\ NonIntegerFields(f) = {}
    /\ BlankFields(f) \subseteq {"preferred_foot"}

\* A form every field of which is there and valid.
AllFieldsValid(f) ==
    /\ MissingKeys(f) = {}
    /\ OthersValid(f)
    /\ f["preferred_foot"] \in
          {<<"l", "e", "f", "t">>, <<"r", "i", "g", "h", "t">>, <<"n", "o", "n", "e">>}

\* The snapshot the request of worker w asks for.
SnapshotOf(w) ==
    [player_api_id |-> NumberOf(arg[w]),
     date |-> current_datetime[w],
     attrs |-> [k \in FieldNames |->
                  IF k \in IntegerFields THEN NumberOf(form[w][k]) ELSE form[w][k]]]

\* C3 (as claimed): every player_update_save with a valid form, once over,
\* has answered with the redirect and its snapshot is in Player_Attributes
\* (leaving aside the requests that met a snapshot of the same key).
C3_EveryValidFormInserts ==
    \A w \in Workers :
        (/\ IsSave(w)
         /\ pc[w] = "respond"
         /\ AllFieldsValid(form[w])
         /\ response[w].exc # "UniqueViolation")
        => /\ response[w].kind = "redirect"
           /\ SnapshotOf(w) \in player_attributes

\* C3 (amended): the time of a request is the clock cut to whole seconds; an
\* INSERT of player_update_save that the storage accepts adds exactly one row,
\* the snapshot of the request (the player of the URL, the time of the
\* request, the parsed values), and leaves every other row as it was; every
\* other step of the handler leaves Player_Attributes as it was.
C3_OneRowOnSuccess ==
    [][\A w \in Workers :
          /\ (pc[w] = "idle" /\ handler'[w] = "player_update_save")
                => /\ SecondsOf(current_datetime'[w]) = clock \div TicksPerSecond
                   /\ player_attributes' = player_attributes
          /\ (IsSave(w) /\ pc'[w] # pc[w])
                => IF pc[w] = "execute" /\ response'[w].kind # "error"
                   THEN /\ SnapshotOf(w) \notin player_attributes
                        /\ player_attributes' = player_attributes \cup {SnapshotOf(w)}
                        /\ Cardinality(player_attributes')
                              = Cardinality(player_attributes) + 1
                   ELSE player_attributes' = player_attributes]_vars

\* C3 witness: an INSERT was accepted next to older snapshots, one of them
\* of the same player, and its snapshot holds parsed values.
C3_InsertedBesideOthers ==
    \E w \in Workers :
        /\ IsSave(w)
        /\ pc[w] = "release"
        /\ response[w].kind = "none"
        /\ SnapshotOf(w) \in player_attributes
        /\ SnapshotOf(w).attrs["overall_rating"] = 71
        /\ \E old \in player_attributes :
              /\ old.player_api_id = 1
              /\ old.date # current_datetime[w]
        /\ Cardinality(player_attributes) >= 3

\* C4 (as claimed): of two player_update_save requests with valid forms for
\* the same existing player, run concurrently while the player has no other
\* snapshot and no statement fails for reasons of the storage, none is lost:
\* when one has ended with the redirect, so has the other.
C4_NoInsertLost ==
    \A w, o \in Workers :
        (/\ w # o
         /\ IsSave(w) /\ IsSave(o)
         /\ pc[w] = "respond" /\ pc[o] = "respond"
         /\ AllFieldsValid(form[w]) /\ AllFieldsValid(form[o])
         /\ arg[w] = <<"1">> /\ arg[o] = <<"1">>
         /\ response[w].exc # "OperationalError"
         /\ response[o].exc # "OperationalError"
         /\ \A r \in player_attributes :
               r.player_api_id = 1 => r \in {SnapshotOf(w), SnapshotOf(o)}
         /\ response[w].kind = "redirect")
        => response[o].kind = "redirect"

\* C9: the SELECT of player_update_view yields the one snapshot of the player
\* that no snapshot of the player is later than, with the player's name, or
\* nothing when the player has no snapshot; nothing found is no error (a
\* statement fails only for reasons of the storage); and no step of the
\* handler changes a table.
C9_LatestSnapshot ==
    [][\A w \in Workers :
          /\ ((IsView(w) \/ handler'[w] = "player_update_view") /\ pc'[w] # pc[w])
                => /\ player_attributes' = player_attributes
                   /\ account' = account
                   /\ depositor' = depositor
          /\ (IsView(w) /\ pc[w] = "execute" /\ pc'[w] = "release")
                => LET mine == {r \in player_attributes :
                                   r.player_api_id = NumberOf(arg[w])}
                   IN  IF response'[w].kind = "error"
                       THEN response'[w].exc = "OperationalError"
                       ELSE IF mine = {} THEN player'[w] = <<>>
                       ELSE /\ Len(player'[w]) = 1
                            /\ player'[w][1].pa \in mine
                            /\ \A r \in mine :
                                  SecondsOf(r.date) <= SecondsOf(player'[w][1].pa.date)
                            /\ \E p \in Player :
                                  /\ p.player_api_id = NumberOf(arg[w])
                                  /\ p.player_name = player'[w][1].player_name]_vars

\* C9 witness: the view has read the later of two snapshots of a player
\* while another player has a snapshot too.
C9_ReadLatestOfTwo ==
    \E w \in Workers :
        /\ IsView(w)
        /\ pc[w] = "release"
        /\ Len(player[w]) = 1
        /\ \E r \in player_attributes :
              /\ r.player_api_id = player[w][1].pa.player_api_id
              /\ SecondsOf(r.date) < SecondsOf(player[w][1].pa.date)
        /\ \E r \in player_attributes :
              r.player_api_id # player[w][1].pa.player_api_id

(* -------------------------- claims: validation -------------------------- *)

\* The place of a field in the order the handler reads the form.
PlaceOf(k) == CHOOSE i \in 1 .. Len(FormFields) : FormFields[i] = k

\* The field of a set the handler reads first.
FirstRead(S) == CHOOSE k \in S : \A o \in S : PlaceOf(k) <= PlaceOf(o)

\* A step in which worker w takes a player_update_save request.
TakesSave(w) == pc[w] = "idle" /\ handler'[w] = "player_update_save"

\* No connection borrowed, no table changed.
StorageUntouched ==
    /\ borrowed' = borrowed
    /\ has_conn' = has_conn
    /\ player_attributes' = player_attributes
    /\ account' = account
    /\ depositor' = depositor

C6_PreferredFootRejected ==
    [][\A w \in Workers :
          (/\ TakesSave(w)
           /\ "preferred_foot" \in DOMAIN form'[w]
           /\ form'[w]["preferred_foot"] \notin
                 {<<"l", "e", "f", "t">>, <<"r", "i", "g", "h", "t">>,
                  <<"n", "o", "n", "e">>}
           /\ OthersValid(form'[w]))
          => /\ pc'[w] = "respond"
             /\ response'[w].kind = "error"
             /\ response'[w].exc = "ValueError"
             /\ response'[w].field = "preferred_foot"
             /\ StorageUntouched]_vars

\* C6 witness: a request with preferred_foot "Left" has failed on line 236.
C6_LeftRejected ==
    \E w \in Workers :
        /\ IsSave(w)
        /\ pc[w] = "respond"
        /\ "preferred_foot" \in DOMAIN form[w]
        /\ form[w]["preferred_foot"] = <<"L", "e", "f", "t">>
        /\ response[w].rule = "must be left, right or none"
        /\ player_attributes # {}

\* C8 (as claimed): a player_update_save whose form lacks one key, every
\* field it holds being valid, fails with the ValueError "is required" of a
\* missing field.
C8_MissingFieldIsRequired ==
    \A w \in Workers :
        (/\ IsSave(w)
         /\ pc[w] = "respond"
         /\ Cardinality(MissingKeys(form[w])) = 1
         /\ NonIntegerFields(form[w]) = {}
         /\ BlankFields(form[w]) = {})
        => /\ response[w].exc = "ValueError"
           /\ response[w].rule = "is required"
           /\ response[w].field \in MissingKeys(form[w])

====
